---- MODULE Spec2Model ----
(***************************************************************************)
(* Model of the audio normalizer of personal-voice                         *)
(* (src/src/audio_conversion.py): convert_to_wav, its two backends (pydub  *)
(* and the ffmpeg subprocess), check_ffmpeg, convert_files_to_wav, and the *)
(* callers' temp-file cleanup.                                             *)
(*                                                                         *)
(* A path is a sequence of one-character strings, so that Path.suffix and  *)
(* str.lower are computed, not assumed.  The filesystem maps every path of *)
(* the bounded universe to the content stored there (Absent: no file).     *)
(* A call of convert_to_wav is a frame (pc, arguments, locals) advanced    *)
(* one statement group at a time; what the outside world decides (the name *)
(* mkstemp draws, whether pydub raises, how the ffmpeg process exits) is   *)
(* chosen with \E at the step that asks for it.                            *)
(***************************************************************************)
EXTENDS Integers, Sequences, FiniteSets, TLC

\* ----------------------------------------------------------------- bounds
\* number of names tempfile.mkstemp can draw from
MaxTmp == 2
\* number of utterances a recognizer reports in one transcription
MaxResults == 2
\* largest max_attempts monitor_operation is called with
MaxAttempts == 3
\* largest number of --samples paths on create_personal_voice's command line
MaxSamples == 2
\* longest file_list given to convert_files_to_wav
MaxBatch == 2
\* convert_to_wav calls per behaviour
MaxCalls == 2
\* longest transcript handed to improve_long_transcript, in characters
MaxText == 5
\* largest max_tokens improve_long_transcript is called with
MaxTokens == 2

\* ------------------------------------------------------------------ paths
None == <<"<None>">>
EmptyStr == <<>>
DotWav == <<".", "w", "a", "v">>
Digits == <<"1", "2", "3", "4", "5">>

\* "a.WAV", "o.wav", "b.mp3": the caller's own files
aWAV == <<"a", ".", "W", "A", "V">>
oWav == <<"o", ".", "w", "a", "v">>
bMp3 == <<"b", ".", "m", "p", "3">>
UserPaths == {aWAV, oWav, bMp3}

\* "/t<n>.wav": the names mkstemp(suffix='.wav') can create
TmpName(n) == <<"/", "t", Digits[n]>> \o DotWav
TmpNames == {TmpName(n) : n \in 1..MaxTmp}

Paths == UserPaths \cup TmpNames

\* str.lower on one character (the letters the universe uses)
LowerChar(c) ==
  CASE c = "W" -> "w"
    [] c = "A" -> "a"
    [] c = "V" -> "v"
    [] c = "S" -> "s"
    [] c = "F" -> "f"
    [] c = "C" -> "c"
    [] c = "R" -> "r"
    [] OTHER -> c

\* str.lower
Lower(s) == [i \in 1..Len(s) |-> LowerChar(s[i])]

\* index of the last occurrence of c in s, 0 when there is none (str.rfind + 1)
RFind(s, c) ==
  LET hits == {i \in 1..Len(s) : s[i] = c}
  IN IF hits = {} THEN 0 ELSE CHOOSE i \in hits : \A j \in hits : j <= i

\* PurePath.name: the final component
PathName(p) == SubSeq(p, RFind(p, "/") + 1, Len(p))

\* PurePath.suffix: from the last dot of the name, unless the dot starts or
\* ends the name
PathSuffix(p) ==
  LET name == PathName(p)
      i == RFind(name, ".")
  IN IF 1 < i /\ i < Len(name) THEN SubSeq(name, i, Len(name)) ELSE EmptyStr

\* ------------------------------------------------------------- filesystem
Absent == [kind |-> "absent", ch |-> 0, rate |-> 0, bits |-> 0]
\* a zero-length file, as mkstemp leaves it
EmptyFile == [kind |-> "empty", ch |-> 0, rate |-> 0, bits |-> 0]
\* a truncated output of a writer that failed mid-way
Partial == [kind |-> "partial", ch |-> 0, rate |-> 0, bits |-> 0]
\* an undecodable input
Corrupt == [kind |-> "corrupt", ch |-> 0, rate |-> 0, bits |-> 0]
\* a decodable compressed input: stereo, 44.1 kHz, 24 bit
Media == [kind |-> "media", ch |-> 2, rate |-> 44100, bits |-> 24]
\* a WAV file the caller already owns (any format)
WavOther == [kind |-> "wav", ch |-> 2, rate |-> 44100, bits |-> 16]

Wav(ch, rate, bits) == [kind |-> "wav", ch |-> ch, rate |-> rate, bits |-> bits]

\* os.path.exists
Exists(f, p) == p \in DOMAIN f /\ f[p] # Absent

ExistingPaths(f) == {p \in DOMAIN f : f[p] # Absent}

Decodable(c) == c.kind \in {"media", "wav"}

VARIABLES
  fs,               \* the filesystem: path -> content
  PYDUB_AVAILABLE,  \* module flag set at import
  pc,               \* where the current convert_to_wav call stands
  input_file,       \* convert_to_wav's arguments ...
  output_file,      \* ... (output_file is reassigned by the temp allocation)
  quiet,
  given_output,     \* history: output_file as the caller passed it
  tmp,              \* history: the name mkstemp created in this call, or None
  ret,              \* the call's outcome
  trace,            \* history: the steps the call has taken
  before,           \* history: the filesystem when the call began
  caller,           \* who called: "top" or "batch"
  handed,           \* history: temp paths returned to top-level callers
  ncalls,           \* convert_to_wav calls so far
  bpc,              \* where convert_files_to_wav stands
  file_list,        \* its argument
  idx,              \* its loop position (1-based)
  converted_files,  \* its two result lists
  temp_files,
  results,          \* history: [file_path, ret, tmp] per finished iteration
  stdout,           \* what the current invocation has printed
  probes,           \* history: check_ffmpeg's answers in the current invocation
  mpc,              \* where the command line's main() stands
  args,             \* its parsed arguments
  exit_code,        \* its return value (-1: none yet)
  wpc,              \* get_transcript.py: where the wait for the recognizer stands
  done,             \* transcribe_from_file's flag, set by stop_cb
  all_results,      \* the utterances recognized_cb collected
  elapsed,          \* sleeps since start_time (time.time() - start_time, in 0.5 s)
  tpc,              \* get_transcript.py: where transcribe_from_file stands
  audio_file_path,  \* its argument
  wav_file_path,    \* what it got from convert_to_wav
  temp_file,        \* its ownership flag
  opc,              \* create_personal_voice.py: where monitor_operation stands
  max_attempts,     \* its argument
  attempt,          \* its loop variable
  polls,            \* history: the requests it made and the sleeps it took
  operation_result, \* what it returned
  epc,              \* create_personal_voice.py: where main() stands
  consent,          \* args.consent
  samples,          \* args.samples
  sample_idx,       \* position of `for sample_file in args.samples` (1-based)
  converted_consent_file,
  converted_sample_files,
  main_temp_files,  \* main's temp_files
  steps,            \* history: the workflow steps called, with their outcome
  exit_status,      \* the process's exit status (-1: still running)
  disk_at_start,    \* history: the filesystem when main() began
  ipc,              \* improve_transcript.py: where improve_long_transcript stands
  transcript_text,  \* its arguments
  max_tokens,
  chunks,           \* the pieces of the transcript
  chunk_i,          \* position of `for chunk in chunks` (1-based)
  current_chunk,    \* the pieces of the group being filled
  current_length,
  processed_chunks,
  sent,             \* history: the client's requests, [group, chunk_text, reply]
  improved          \* what improve_long_transcript returned

vars == <<fs, PYDUB_AVAILABLE, pc, input_file, output_file, quiet, given_output,
          tmp, ret, trace, before, caller, handed, ncalls, bpc, file_list, idx,
          converted_files, temp_files, results, stdout, probes, mpc, args,
          exit_code, wpc, done, all_results, elapsed, tpc, audio_file_path,
          wav_file_path, temp_file, opc, max_attempts, attempt, polls,
          operation_result, epc, consent, samples, sample_idx,
          converted_consent_file, converted_sample_files, main_temp_files,
          steps, exit_status, disk_at_start, ipc, transcript_text, max_tokens,
          chunks, chunk_i, current_chunk, current_length, processed_chunks,
          sent, improved>>

\* the audio_conversion module's part of the state
conversion == <<fs, PYDUB_AVAILABLE, pc, input_file, output_file, quiet,
           given_output, tmp, ret, trace, before, caller, handed, ncalls, bpc,
           file_list, idx, converted_files, temp_files, results, stdout,
           probes, mpc, args, exit_code>>
\* the recognizer wait of get_transcript.py
wait == <<wpc, done, all_results, elapsed>>
\* transcribe_from_file of get_transcript.py
transcribe == <<tpc, audio_file_path, wav_file_path, temp_file>>
\* monitor_operation of create_personal_voice.py
monitor == <<opc, max_attempts, attempt, polls, operation_result>>
\* main of create_personal_voice.py
enroll == <<epc, consent, samples, sample_idx, converted_consent_file,
            converted_sample_files, main_temp_files, steps, exit_status,
            disk_at_start>>
\* improve_long_transcript of improve_transcript.py
improve == <<ipc, transcript_text, max_tokens, chunks, chunk_i, current_chunk,
             current_length, processed_chunks, sent, improved>>
\* the state of the scripts beside audio_conversion
scripts == <<wait, transcribe, monitor, enroll, improve>>
\* what a step of the recognizer wait leaves alone
beside_wait == <<conversion, transcribe, monitor, enroll, improve>>
\* what transcribe_from_file leaves alone, the conversion apart
beside_transcribe == <<wait, monitor, enroll, improve>>
\* what monitor_operation leaves alone
beside_monitor == <<conversion, wait, transcribe, enroll, improve>>
\* what create_personal_voice's main leaves alone, the conversion apart
beside_enroll == <<wait, transcribe, monitor, improve>>
\* what improve_long_transcript leaves alone
beside_improve == <<conversion, wait, transcribe, monitor, enroll>>

frame == <<input_file, output_file, quiet, given_output, tmp, before, caller>>
locals == <<input_file, output_file, given_output, tmp, before, caller>>
batch == <<bpc, file_list, idx, converted_files, temp_files, results>>
cli == <<mpc, args, exit_code>>

\* Python values whose type matters to the code that receives them: a str
\* (a path), the tuple (success, path) convert_to_wav returns, and None
PyStr(p) == [type |-> "str", success |-> FALSE, path |-> p]
PyTuple(success, path) == [type |-> "tuple", success |-> success, path |-> path]
PyNone == [type |-> "NoneType", success |-> FALSE, path |-> None]

NoRet == [kind |-> "none", success |-> FALSE, path |-> None]
\* the value of `before` while no call is in progress
NoFs == [p \in Paths |-> Absent]
\* mutant of Return: the flag says success whatever is returned with it
Return_flag_set(success, path) == [kind |-> "return", success |-> TRUE, path |-> path]

Return(success, path) == [kind |-> "return", success |-> success, path |-> path]
Raise == [kind |-> "raise", success |-> FALSE, path |-> None]
\* the value of `args` while main() is not running
NoArgs == [input |-> None, output |-> None, quiet |-> FALSE]


\* ------------------------------------------------------------------ print
\* one printed message
Msg(m) == <<m>>

\* stdout after `if not q: print(...)` for each of msgs
Say(q, msgs) == IF q THEN stdout ELSE stdout \o msgs

\* ------------------------------------------------ the outside world's part
\* mutant of MkstempChoices: a name is drawn without the exclusive create
MkstempChoices_not_exclusive(f) == TmpNames

\* tempfile.mkstemp(suffix='.wav'): creates, with O_EXCL, a file under a name
\* that did not exist
MkstempChoices(f) == {t \in TmpNames : ~Exists(f, t)}

\* AudioSegment.set_frame_rate / set_channels / set_sample_width
set_frame_rate(audio, r) == [audio EXCEPT !.rate = r]
set_channels(audio, n) == [audio EXCEPT !.ch = n]
set_sample_width(audio, bytes) == [audio EXCEPT !.bits = 8 * bytes]

\* audio.set_frame_rate(16000).set_channels(1).set_sample_width(2)
Normalize(audio) ==
  set_sample_width(set_channels(set_frame_rate(audio, 16000), 1), 2)

\* audio.export(output_file, format="wav"): what ends up in the file
Export(audio) == Wav(audio.ch, audio.rate, audio.bits)

\* the ways the pydub block can go for an input with content c: all three
\* steps succeed ("ok"), or from_file / the set_* chain / export raises
PydubOutcomes(c) ==
  IF Decodable(c) THEN {"ok", "decode", "transform", "export"} ELSE {"decode"}

\* mutant of PydubFs: pydub leaves a file of its own beside the destination
PydubFs_elsewhere(f, inp, out, o) == [f EXCEPT ![oWav] = Partial]

\* the filesystem after the pydub block ended with outcome o
PydubFs(f, inp, out, o) ==
  CASE o = "ok" -> [f EXCEPT ![out] = Export(Normalize(f[inp]))]
    [] o = "export" -> [f EXCEPT ![out] = Partial]
    [] OTHER -> f

\* the ffmpeg process started by
\*   ffmpeg -i inp -acodec pcm_s16le -ac 1 -ar 16000 out
\* (no -y): exit status and filesystem afterwards.  run = "error": the
\* process fails while writing; overwrite: the answer its "File exists.
\* Overwrite? [y/N]" question gets on stdin (FALSE also when stdin is closed)
FfmpegProcess(f, inp, out, run, overwrite) ==
  IF ~Decodable(f[inp])
    THEN [exit |-> 1, why |-> "undecodable", fs |-> f]
  ELSE IF Exists(f, out) /\ ~overwrite
    THEN [exit |-> 1, why |-> "refused", fs |-> f]
  ELSE IF inp = out
    THEN [exit |-> 1, why |-> "refused", fs |-> f]
  ELSE IF run = "error"
    THEN [exit |-> 1, why |-> "failed", fs |-> [f EXCEPT ![out] = Partial]]
  ELSE [exit |-> 0, why |-> "exit0", fs |-> [f EXCEPT ![out] = Wav(1, 16000, 16)]]

\* mutant of RemoveIfExists: the file is left where it is
RemoveIfExists_not(f, p) == f

\* os.remove(p) guarded by os.path.exists(p)
RemoveIfExists(f, p) == IF Exists(f, p) THEN [f EXCEPT ![p] = Absent] ELSE f

\* check_ffmpeg: "ffmpeg -version" ran and exited 0 ("ok"), exited non-zero
\* ("error": CalledProcessError), was not found ("notfound":
\* FileNotFoundError), or could not be executed ("permission":
\* PermissionError, which the except clause does not name)
check_ffmpeg(probe) ==
  CASE probe = "ok" -> "True"
    [] probe \in {"error", "notfound"} -> "False"
    [] OTHER -> "raise"

\* what check_ffmpeg prints when not quiet (lines 36-37, 40-41)
check_ffmpeg_prints(probe) ==
  CASE check_ffmpeg(probe) = "True" -> <<Msg("FFmpeg is installed")>>
    [] check_ffmpeg(probe) = "False" -> <<Msg("FFmpeg is not installed")>>
    [] OTHER -> <<>>

ProbeOutcomes == {"ok", "error", "notfound", "permission"}
RunOutcomes == {"normal", "error", "notfound"}
FfprobeOutcomes == {"ok", "error", "notfound"}

\* ---------------------------------------------------------- convert_to_wav
\* mutant of file_extension: the suffix compared as written, case and all
file_extension_case_sensitive(p) == PathSuffix(p)

\* Path(input_file).suffix.lower()
file_extension(p) == Lower(PathSuffix(p))

\* mutant of InputMissing: the existence check left out
InputMissing_unchecked(f, p) == FALSE

\* not os.path.exists(input_file)
InputMissing(f, p) == ~Exists(f, p)

\* mutant of NoOutputGiven: a temporary file whatever the caller passed
NoOutputGiven_always(out) == TRUE

\* not output_file
NoOutputGiven(out) == out = None \/ out = EmptyStr

\* mutant of FirstBackend: without pydub, ffmpeg is run without the probe
FirstBackend_unprobed == IF PYDUB_AVAILABLE THEN "pydub" ELSE "ffmpeg"

\* the first backend of a call
FirstBackend == IF PYDUB_AVAILABLE THEN "pydub" ELSE "check_ffmpeg"

\* mutant of AfterPydubFailure: the pydub failure is the call's result
AfterPydubFailure_giveup == [pc |-> "done", ret |-> Return(FALSE, None)]

\* lines 92-97, the except branch of the pydub block: nothing is returned
\* yet, convert_to_wav_with_ffmpeg is next
AfterPydubFailure == [pc |-> "check_ffmpeg", ret |-> NoRet]

\* the paths a caller passes: its own files, and files that exist (a caller
\* learns a mkstemp name only from a call that created the file)
CallerInputs(f) == UserPaths \cup ExistingPaths(f)
CallerOutputs == {None, EmptyStr} \cup UserPaths

\* lines 57-67, entered by caller c with the arguments (inp, out, q)
Enter(c, inp, out, q) ==
  /\ pc = "idle"
  /\ ncalls < MaxCalls
  /\ ncalls' = ncalls + 1
  /\ caller' = c
  /\ input_file' = inp
  /\ output_file' = out
  /\ given_output' = out
  /\ quiet' = q
  /\ before' = fs
  /\ tmp' = None
  /\ trace' = <<>>
  /\ IF InputMissing(fs, inp)
       THEN /\ pc' = "done"
            /\ ret' = Return(FALSE, None)
            /\ stdout' = Say(q, <<Msg("Input file not found")>>)
       ELSE /\ stdout' = stdout
            /\ IF file_extension(inp) = DotWav
                 THEN pc' = "done" /\ ret' = Return(TRUE, inp)
                 ELSE pc' = "alloc" /\ ret' = NoRet
  /\ UNCHANGED <<fs, PYDUB_AVAILABLE, handed, probes>>

\* a top-level call: convert_to_wav(inp, out, quiet=q)
convert_to_wav(inp, out, q) ==
  /\ bpc = "idle"
  /\ mpc = "idle"
  /\ Enter("top", inp, out, q)
  /\ UNCHANGED batch
  /\ UNCHANGED cli
  /\ UNCHANGED scripts

\* lines 69-72: the destination
Alloc ==
  /\ pc = "alloc"
  /\ IF NoOutputGiven(output_file)
       THEN \E t \in MkstempChoices(fs) \cup {None} :
              IF t = None
                THEN /\ pc' = "done"
                     /\ ret' = Raise
                     /\ UNCHANGED <<fs, output_file, tmp, trace, stdout>>
                ELSE /\ fs' = [fs EXCEPT ![t] = EmptyFile]
                     /\ output_file' = t
                     /\ tmp' = t
                     /\ trace' = Append(trace, <<"mkstemp", "ok">>)
                     /\ pc' = FirstBackend
                     /\ ret' = ret
                     /\ stdout' = Say(quiet, <<Msg("Converting")>>)
       ELSE /\ pc' = FirstBackend
            /\ stdout' = Say(quiet, <<Msg("Converting")>>)
            /\ UNCHANGED <<fs, output_file, tmp, trace, ret>>
  /\ UNCHANGED <<PYDUB_AVAILABLE, input_file, quiet, given_output, before,
                 caller, handed, ncalls, probes>>
  /\ UNCHANGED batch
  /\ UNCHANGED cli
  /\ UNCHANGED scripts

\* lines 78-97: the pydub block
Pydub ==
  /\ pc = "pydub"
  /\ \E o \in PydubOutcomes(fs[input_file]) :
       /\ fs' = PydubFs(fs, input_file, output_file, o)
       /\ IF o = "ok"
            THEN pc' = "done" /\ ret' = Return(TRUE, output_file)
            ELSE pc' = AfterPydubFailure.pc /\ ret' = AfterPydubFailure.ret
       /\ trace' = Append(trace, <<"pydub", o>>)
       /\ stdout' = Say(quiet,
            IF o = "ok"
              THEN <<Msg("Using pydub"), Msg("Conversion successful"),
                     Msg("Audio details")>>
              ELSE <<Msg("Using pydub"), Msg("Pydub conversion failed"),
                     Msg("Falling back to FFmpeg")>>)
  /\ UNCHANGED <<PYDUB_AVAILABLE, input_file, output_file, quiet, given_output,
                 tmp, before, caller, handed, ncalls, probes>>
  /\ UNCHANGED batch
  /\ UNCHANGED cli
  /\ UNCHANGED scripts

\* lines 114-121: convert_to_wav_with_ffmpeg's probe
CheckFfmpeg ==
  /\ pc = "check_ffmpeg"
  /\ \E probe \in ProbeOutcomes :
       /\ CASE check_ffmpeg(probe) = "True" -> pc' = "ffmpeg" /\ ret' = ret
            [] check_ffmpeg(probe) = "False" ->
                 pc' = "done" /\ ret' = Return(FALSE, None)
            [] OTHER -> pc' = "done" /\ ret' = Raise
       /\ trace' = Append(trace, <<"check_ffmpeg", probe>>)
       /\ probes' = Append(probes, check_ffmpeg(probe))
       /\ stdout' = Say(quiet, check_ffmpeg_prints(probe)
                                 \o IF check_ffmpeg(probe) = "False"
                                      THEN <<Msg("Please install FFmpeg")>>
                                      ELSE <<>>)
  /\ UNCHANGED <<fs, PYDUB_AVAILABLE, input_file, output_file, quiet,
                 given_output, tmp, before, caller, handed, ncalls>>
  /\ UNCHANGED batch
  /\ UNCHANGED cli
  /\ UNCHANGED scripts

\* lines 123-135 and 155-160: the conversion subprocess and its except clause
Ffmpeg ==
  /\ pc = "ffmpeg"
  /\ \E run \in RunOutcomes, overwrite \in BOOLEAN :
       IF run = "notfound"
         THEN \* FileNotFoundError: not a CalledProcessError, not caught
              /\ pc' = "done"
              /\ ret' = Raise
              /\ trace' = Append(trace, <<"ffmpeg", "notfound">>)
              /\ fs' = fs
              /\ stdout' = Say(quiet, <<Msg("Using FFmpeg")>>)
         ELSE LET p == FfmpegProcess(fs, input_file, output_file, run, overwrite)
              IN IF p.exit = 0
                   THEN /\ fs' = p.fs
                        /\ trace' = Append(trace, <<"ffmpeg", p.why>>)
                        /\ stdout' = Say(quiet, <<Msg("Using FFmpeg"),
                                                  Msg("Conversion successful")>>)
                        /\ IF quiet
                             THEN pc' = "done" /\ ret' = Return(TRUE, output_file)
                             ELSE pc' = "ffprobe" /\ ret' = ret
                   ELSE /\ fs' = RemoveIfExists(p.fs, output_file)
                        /\ trace' = IF Exists(p.fs, output_file)
                                      THEN trace \o <<<<"ffmpeg", p.why>>,
                                                       <<"remove", "ok">>>>
                                      ELSE Append(trace, <<"ffmpeg", p.why>>)
                        /\ pc' = "done"
                        /\ ret' = Return(FALSE, None)
                        /\ stdout' = Say(quiet, <<Msg("Using FFmpeg"),
                                                  Msg("FFmpeg conversion failed")>>)
  /\ UNCHANGED <<PYDUB_AVAILABLE, input_file, output_file, quiet, given_output,
                 tmp, before, caller, handed, ncalls, probes>>
  /\ UNCHANGED batch
  /\ UNCHANGED cli
  /\ UNCHANGED scripts

\* mutant of AfterFfprobe: a failing metadata query is not swallowed
AfterFfprobe_propagates(o, out) == IF o = "ok" THEN Return(TRUE, out) ELSE Raise

\* mutant of AfterFfprobe: a failing metadata query fails the conversion
AfterFfprobe_fails(o, out) ==
  IF o = "ok" THEN Return(TRUE, out) ELSE Return(FALSE, None)

\* lines 141-154: whatever the metadata query did (o), `except: pass` and
\* return True, output_file
AfterFfprobe(o, out) == Return(TRUE, out)

\* lines 137-154: the metadata query, whose failures are swallowed
Ffprobe ==
  /\ pc = "ffprobe"
  /\ \E o \in FfprobeOutcomes :
       /\ pc' = "done"
       /\ ret' = AfterFfprobe(o, output_file)
       /\ trace' = Append(trace, <<"ffprobe", o>>)
       /\ stdout' = IF o = "ok" THEN Append(stdout, Msg("Stream info")) ELSE stdout
  /\ UNCHANGED <<fs, PYDUB_AVAILABLE, input_file, output_file, quiet,
                 given_output, tmp, before, caller, handed, ncalls, probes>>
  /\ UNCHANGED batch
  /\ UNCHANGED cli
  /\ UNCHANGED scripts

\* the call's frame is gone once its caller has the result
FrameGone ==
  /\ pc' = "idle"
  /\ input_file' = None
  /\ output_file' = None
  /\ given_output' = None
  /\ tmp' = None
  /\ ret' = NoRet
  /\ trace' = <<>>
  /\ before' = NoFs
  /\ caller' = "top"

\* the top-level caller takes the result; a temp path it was handed is its own
TopReturn ==
  /\ pc = "done"
  /\ caller = "top"
  /\ handed' = IF ret.success /\ ret.path = tmp THEN handed \cup {tmp} ELSE handed
  /\ FrameGone
  /\ quiet' = FALSE
  /\ stdout' = <<>>
  /\ probes' = <<>>
  /\ UNCHANGED <<fs, PYDUB_AVAILABLE, ncalls>>
  /\ UNCHANGED batch
  /\ UNCHANGED cli
  /\ UNCHANGED scripts

\* a caller deletes a temporary WAV it owns (get_transcript.py)
RemoveTemp ==
  /\ pc = "idle"
  /\ bpc = "idle"
  /\ \E t \in handed :
       /\ fs' = RemoveIfExists(fs, t)
       /\ handed' = handed \ {t}
  /\ mpc = "idle"
  /\ UNCHANGED <<PYDUB_AVAILABLE, pc, ret, trace, ncalls, stdout, probes>>
  /\ UNCHANGED frame
  /\ UNCHANGED batch
  /\ UNCHANGED cli
  /\ UNCHANGED scripts


\* ---------------------------------------------------- convert_files_to_wav
\* mutant of IsTemp: every converted file is tracked as temporary
IsTemp_always(converted_file, file_path) == TRUE

\* converted_file != file_path: the result is a new file, to be cleaned up
IsTemp(converted_file, file_path) == converted_file # file_path

\* lines 210-217: the loop body after convert_to_wav returned r for file_path
BatchAppend(lists, file_path, r) ==
  IF r.success
    THEN [converted |-> Append(lists.converted, r.path),
          temps |-> IF IsTemp(r.path, file_path)
                      THEN Append(lists.temps, r.path)
                      ELSE lists.temps]
    ELSE lists

\* mutant of LoopContinues: the loop breaks at the first failure
LoopContinues_break(r) == r.success

\* the for loop has no break: it goes on to the next path whatever the
\* result r of this one
LoopContinues(r) == TRUE

BoundedLists(S) == UNION {[1..n -> S] : n \in 0..MaxBatch}

\* lines 205-206: convert_files_to_wav(list, quiet=q) starts
convert_files_to_wav(list, q) ==
  /\ pc = "idle"
  /\ bpc = "idle"
  /\ mpc = "idle"
  /\ ncalls + Len(list) <= MaxCalls
  /\ bpc' = "loop"
  /\ file_list' = list
  /\ idx' = 1
  /\ converted_files' = <<>>
  /\ temp_files' = <<>>
  /\ results' = <<>>
  /\ quiet' = q
  /\ UNCHANGED <<fs, PYDUB_AVAILABLE, pc, input_file, output_file, given_output,
                 tmp, ret, trace, before, caller, handed, ncalls, stdout, probes>>
  /\ UNCHANGED cli
  /\ UNCHANGED scripts

\* lines 208-209: the next path is handed to convert_to_wav
BatchCall ==
  /\ bpc = "loop"
  /\ idx <= Len(file_list)
  /\ Enter("batch", file_list[idx], None, quiet)
  /\ bpc' = "call"
  /\ UNCHANGED <<file_list, idx, converted_files, temp_files, results>>
  /\ UNCHANGED cli
  /\ UNCHANGED scripts

\* lines 210-217: its result is recorded; an exception ends the function
BatchResult ==
  /\ bpc = "call"
  /\ pc = "done"
  /\ FrameGone
  /\ IF ret.kind = "raise"
       THEN /\ bpc' = "raised"
            /\ UNCHANGED <<idx, converted_files, temp_files, results, stdout>>
       ELSE LET l == BatchAppend([converted |-> converted_files,
                                  temps |-> temp_files], file_list[idx], ret)
            IN /\ converted_files' = l.converted
               /\ temp_files' = l.temps
               /\ results' = Append(results, [file_path |-> file_list[idx],
                                               ret |-> ret, tmp |-> tmp])
               /\ idx' = IF LoopContinues(ret) THEN idx + 1 ELSE Len(file_list) + 1
               /\ bpc' = "loop"
               /\ stdout' = IF ret.success THEN stdout
                             ELSE Say(quiet, <<Msg("Error converting")>>)
  /\ UNCHANGED <<fs, PYDUB_AVAILABLE, quiet, handed, ncalls, file_list, probes>>
  /\ UNCHANGED cli
  /\ UNCHANGED scripts

\* line 219: return converted_files, temp_files
BatchReturn ==
  /\ bpc = "loop"
  /\ idx > Len(file_list)
  /\ bpc' = "returned"
  /\ UNCHANGED <<fs, PYDUB_AVAILABLE, pc, ret, trace, handed, ncalls, file_list,
                 idx, converted_files, temp_files, results, stdout, probes>>
  /\ UNCHANGED frame
  /\ UNCHANGED cli
  /\ UNCHANGED scripts

RECURSIVE RemoveAll(_, _)
\* for temp_file in temp_files: if os.path.exists(temp_file): os.remove(temp_file)
RemoveAll(f, list) ==
  IF list = <<>> THEN f ELSE RemoveAll(RemoveIfExists(f, Head(list)), Tail(list))

\* the caller's cleanup of the temp files the batch reported
\* (create_personal_voice.py); after an exception it has no list to clean
Cleanup ==
  /\ bpc \in {"returned", "raised"}
  /\ fs' = IF bpc = "returned" THEN RemoveAll(fs, temp_files) ELSE fs
  /\ bpc' = "idle"
  /\ file_list' = <<>>
  /\ idx' = 1
  /\ converted_files' = <<>>
  /\ temp_files' = <<>>
  /\ results' = <<>>
  /\ quiet' = FALSE
  /\ stdout' = <<>>
  /\ probes' = <<>>
  /\ UNCHANGED <<PYDUB_AVAILABLE, pc, ret, trace, handed, ncalls>>
  /\ UNCHANGED <<input_file, output_file, given_output, tmp, before, caller>>
  /\ UNCHANGED cli
  /\ UNCHANGED scripts

\* ------------------------------------------------------------------- main
\* mutant of MainProbes: main probes ffmpeg in quiet mode too
MainProbes_always(q) == TRUE

\* lines 231-242: main calls check_ffmpeg() itself only when not quiet
MainProbes(q) == ~q

\* mutant of ExitCode: main returns 0 whatever the conversion reported
ExitCode_zero(success) == 0

\* lines 247-256: main's return value
ExitCode(success) == IF success THEN 0 ELSE 1

\* lines 247-256: what main prints about the result r
MainPrints(q, r) ==
  IF r.success
    THEN IF q THEN <<r.path>> ELSE <<Msg("Audio conversion successful")>>
    ELSE IF q THEN <<>> ELSE <<Msg("Audio conversion failed")>>

\* lines 229-239: the command line is parsed, the banner printed
main(inp, out, q) ==
  /\ mpc = "idle"
  /\ pc = "idle"
  /\ bpc = "idle"
  /\ ncalls = 0
  /\ args' = [input |-> inp, output |-> out, quiet |-> q]
  /\ mpc' = IF MainProbes(q) THEN "probe" ELSE "convert"
  /\ stdout' = IF q THEN <<>>
                ELSE <<Msg("Audio Conversion"), Msg("pydub library status")>>
  /\ probes' = <<>>
  /\ exit_code' = -1
  /\ UNCHANGED <<fs, PYDUB_AVAILABLE, pc, ret, trace, handed, ncalls>>
  /\ UNCHANGED frame
  /\ UNCHANGED batch
  /\ UNCHANGED scripts

\* line 242: check_ffmpeg(); what it raises leaves main
MainProbe ==
  /\ mpc = "probe"
  /\ \E probe \in ProbeOutcomes :
       /\ mpc' = IF check_ffmpeg(probe) = "raise" THEN "raised" ELSE "convert"
       /\ probes' = Append(probes, check_ffmpeg(probe))
       /\ stdout' = stdout \o check_ffmpeg_prints(probe)
  /\ UNCHANGED <<fs, PYDUB_AVAILABLE, pc, ret, trace, handed, ncalls, args,
                 exit_code>>
  /\ UNCHANGED frame
  /\ UNCHANGED batch
  /\ UNCHANGED scripts

\* line 245: convert_to_wav(args.input, args.output, quiet=args.quiet)
MainCall ==
  /\ mpc = "convert"
  /\ Enter("main", args.input, args.output, args.quiet)
  /\ mpc' = "call"
  /\ UNCHANGED <<args, exit_code>>
  /\ UNCHANGED batch
  /\ UNCHANGED scripts

\* lines 247-256: the result becomes the exit code; an exception that left
\* convert_to_wav leaves main too.  The process ends here.
MainReturn ==
  /\ mpc = "call"
  /\ pc = "done"
  /\ IF ret.kind = "raise"
       THEN /\ mpc' = "raised"
            /\ UNCHANGED <<exit_code, stdout>>
       ELSE /\ mpc' = "exited"
            /\ exit_code' = ExitCode(ret.success)
            /\ stdout' = stdout \o MainPrints(args.quiet, ret)
  /\ UNCHANGED <<fs, PYDUB_AVAILABLE, pc, ret, trace, handed, ncalls, args,
                 probes>>
  /\ UNCHANGED frame
  /\ UNCHANGED batch
  /\ UNCHANGED scripts

\* ------------------------------------------- get_transcript.py: the wait
\* the texts of the utterances a recognizer reports
Texts == {"a", "b"}

\* line 120: the timeout in seconds
Timeout == 300
\* line 117: time.sleep(0.5)
SleepsPerSecond == 2
\* the timeout counted in sleeps
TimeoutSleeps == Timeout * SleepsPerSecond

\* lines 92-115: all_results = [], done = False, the callbacks connected,
\* start_continuous_recognition(), start_time = time.time()
start_continuous_recognition ==
  /\ wpc = "idle"
  /\ wpc' = "while"
  /\ done' = FALSE
  /\ all_results' = <<>>
  /\ elapsed' = 0
  /\ UNCHANGED beside_wait

\* lines 95-99, on the recognizer's thread: a RecognizedSpeech result is
\* appended, a NoMatch only printed
recognized_cb(reason, text) ==
  /\ wpc \in {"while", "slept", "stop"}
  /\ Len(all_results) < MaxResults
  /\ all_results' = IF reason = "RecognizedSpeech"
                      THEN Append(all_results, text)
                      ELSE all_results
  /\ UNCHANGED <<wpc, done, elapsed>>
  /\ UNCHANGED beside_wait

\* lines 101-104, on the recognizer's thread (session_stopped or canceled)
stop_cb ==
  /\ wpc \in {"while", "slept", "stop"}
  /\ done' = TRUE
  /\ UNCHANGED <<wpc, all_results, elapsed>>
  /\ UNCHANGED beside_wait

\* line 120: len(all_results) > 0 and (time.time() - start_time) > 300
TimedOut(n, t) == n > 0 /\ t > TimeoutSleeps

\* lines 116-117: `while not done:` and, inside, time.sleep(0.5)
WhileNotDone ==
  /\ wpc = "while"
  /\ IF done
       THEN wpc' = "stop" /\ elapsed' = elapsed
       ELSE /\ wpc' = "slept"
            /\ elapsed' = IF elapsed > TimeoutSleeps THEN elapsed ELSE elapsed + 1
  /\ UNCHANGED <<done, all_results>>
  /\ UNCHANGED beside_wait

\* lines 120-122: the timeout test, break when it holds
TimeoutCheck ==
  /\ wpc = "slept"
  /\ wpc' = IF TimedOut(Len(all_results), elapsed) THEN "stop" ELSE "while"
  /\ UNCHANGED <<done, all_results, elapsed>>
  /\ UNCHANGED beside_wait

\* line 125: speech_recognizer.stop_continuous_recognition()
stop_continuous_recognition ==
  /\ wpc = "stop"
  /\ wpc' = "stopped"
  /\ UNCHANGED <<done, all_results, elapsed>>
  /\ UNCHANGED beside_wait

\* ------------------------------- get_transcript.py: transcribe_from_file
\* os.path.exists(x): a str is looked up; os.stat raises TypeError for a
\* tuple, which genericpath.exists (it catches OSError and ValueError) lets
\* through
os_path_exists(f, x) ==
  CASE x.type = "str" -> IF Exists(f, x.path) THEN "True" ELSE "False"
    [] OTHER -> "TypeError"

\* line 62: wav_file_path = convert_to_wav(audio_file_path), the whole
\* return value r
Received(r) == PyTuple(r.success, r.path)

\* line 62: convert_to_wav(audio_file_path), output_file and quiet defaulted
transcribe_from_file(path) ==
  /\ tpc = "idle"
  /\ mpc = "idle"
  /\ bpc = "idle"
  /\ ncalls = 0
  /\ Enter("transcribe", path, None, FALSE)
  /\ tpc' = "convert"
  /\ audio_file_path' = path
  /\ UNCHANGED <<wav_file_path, temp_file>>
  /\ UNCHANGED batch
  /\ UNCHANGED cli
  /\ UNCHANGED beside_transcribe

\* lines 62-63: the result is stored, temp_file = wav_file_path !=
\* audio_file_path; an exception of the conversion leaves the function here
TranscribeAssign ==
  /\ tpc = "convert"
  /\ pc = "done"
  /\ IF ret.kind = "raise"
       THEN /\ tpc' = "convert_raised"
            /\ UNCHANGED <<wav_file_path, temp_file>>
       ELSE /\ tpc' = "try"
            /\ wav_file_path' = Received(ret)
            /\ temp_file' = (Received(ret) # PyStr(audio_file_path))
  /\ UNCHANGED audio_file_path
  /\ UNCHANGED conversion
  /\ UNCHANGED beside_transcribe

\* lines 65-156: the try block ends in one of its returns, or an exception
\* of the speech SDK is caught by `except Exception` and the error string
\* returned; either way the finally block is next
TranscribeBody ==
  /\ tpc = "try"
  /\ \E o \in {"transcribed", "failed"} : tpc' = "finally_" \o o
  /\ UNCHANGED <<audio_file_path, wav_file_path, temp_file>>
  /\ UNCHANGED conversion
  /\ UNCHANGED beside_transcribe

\* lines 157-164: the cleanup; os.remove's own failure is caught and printed
TranscribeFinally ==
  /\ tpc \in {"finally_transcribed", "finally_failed"}
  /\ IF ~temp_file
       THEN tpc' = "returned" /\ fs' = fs
       ELSE CASE os_path_exists(fs, wav_file_path) = "TypeError" ->
                   tpc' = "cleanup_raised" /\ fs' = fs
              [] os_path_exists(fs, wav_file_path) = "True"
                   /\ wav_file_path # PyStr(audio_file_path) ->
                   /\ tpc' = "returned"
                   /\ \E removed \in BOOLEAN :
                        fs' = IF removed
                                THEN RemoveIfExists(fs, wav_file_path.path)
                                ELSE fs
              [] OTHER -> tpc' = "returned" /\ fs' = fs
  /\ UNCHANGED <<audio_file_path, wav_file_path, temp_file>>
  /\ UNCHANGED <<PYDUB_AVAILABLE, pc, ret, trace, handed, ncalls, stdout, probes>>
  /\ UNCHANGED frame
  /\ UNCHANGED batch
  /\ UNCHANGED cli
  /\ UNCHANGED beside_transcribe

\* ----------------------------- create_personal_voice.py: monitor_operation
\* the status texts of an operation, as the service spells them; the empty
\* string stands for a reply without a 'status' key (line 151's default)
Succeeded == <<"S", "u", "c", "c", "e", "e", "d", "e", "d">>
FailedStatus == <<"F", "a", "i", "l", "e", "d">>
Canceled == <<"c", "a", "n", "c", "e", "l", "e", "d">>
Running == <<"R", "u", "n", "n", "i", "n", "g">>
Statuses == {Succeeded, FailedStatus, Canceled, Running, EmptyStr}

\* the replies to requests.get: HTTP 200 with a status, or another code
OkCode == 200
Responses ==
  [status_code : {OkCode}, status : Statuses]
    \cup [status_code : {429, 500}, status : {EmptyStr}]

NoResult == [kind |-> "none", success |-> FALSE,
             status |-> [status_code |-> 0, status |-> EmptyStr]]
\* return success, operation_status (None: status_code 0)
OperationReturn(success, r) == [kind |-> "return", success |-> success, status |-> r]
NoStatus == [status_code |-> 0, status |-> EmptyStr]
\* the mark time.sleep(delay) leaves in polls
Slept == [status_code |-> -1, status |-> EmptyStr]

\* lines 149-162: what one reply means to the loop: return True ("succeeded"),
\* return False ("failed"), sleep and go on ("sleep"), or, for a reply that
\* is not 200, go on at once ("again")
Verdict(response) ==
  IF response.status_code = OkCode
    THEN LET status == Lower(response.status)
         IN IF status = Lower(Succeeded) THEN "succeeded"
            ELSE IF status \in {Lower(FailedStatus), Lower(Canceled)} THEN "failed"
            ELSE "sleep"
    ELSE "again"

\* lines 134-145: monitor_operation(operation_id, max_attempts=n)
monitor_operation(n) ==
  /\ opc = "idle"
  /\ opc' = "for"
  /\ max_attempts' = n
  /\ attempt' = 0
  /\ polls' = <<>>
  /\ operation_result' = NoResult
  /\ UNCHANGED beside_monitor

\* lines 146-162: one pass of `for attempt in range(max_attempts)`: the
\* request, its reply, and what the loop does with it
MonitorAttempt ==
  /\ opc = "for"
  /\ attempt < max_attempts
  /\ \E response \in Responses :
       CASE Verdict(response) = "succeeded" ->
              /\ opc' = "returned"
              /\ operation_result' = OperationReturn(TRUE, response)
              /\ polls' = Append(polls, response)
              /\ attempt' = attempt
         [] Verdict(response) = "failed" ->
              /\ opc' = "returned"
              /\ operation_result' = OperationReturn(FALSE, response)
              /\ polls' = Append(polls, response)
              /\ attempt' = attempt
         [] Verdict(response) = "sleep" ->
              /\ opc' = "for"
              /\ polls' = polls \o <<response, Slept>>
              /\ attempt' = attempt + 1
              /\ UNCHANGED operation_result
         [] OTHER ->
              /\ opc' = "for"
              /\ polls' = Append(polls, response)
              /\ attempt' = attempt + 1
              /\ UNCHANGED operation_result
  /\ UNCHANGED max_attempts
  /\ UNCHANGED beside_monitor

\* lines 164-165: the range is used up
MonitorTimedOut ==
  /\ opc = "for"
  /\ attempt >= max_attempts
  /\ opc' = "returned"
  /\ operation_result' = OperationReturn(FALSE, NoStatus)
  /\ UNCHANGED <<max_attempts, attempt, polls>>
  /\ UNCHANGED beside_monitor

\* ------------------------------------- create_personal_voice.py: main
\* the remote steps of the workflow, in the order main calls them
Steps == <<"create_project", "upload_consent", "create_personal_voice",
           "get_voice_status">>

\* what a request to the service can come to for the function making it:
\* success returned, failure returned, or an exception of requests
RequestResults == {"True", "False", "raise"}

RECURSIVE FirstNotFound(_, _)
\* lines 180-183: the first sample for which os.path.exists is not true, as
\* the answer it gave ("False", "TypeError"); "True" when all exist
FirstNotFound(f, sample_files) ==
  IF sample_files = <<>> THEN "True"
  ELSE IF os_path_exists(f, Head(sample_files)) = "True"
    THEN FirstNotFound(f, Tail(sample_files))
    ELSE os_path_exists(f, Head(sample_files))

\* a step that ends before its request: it returned False or raised
NoRequest(answer) ==
  {[remote |-> FALSE, result |-> IF answer = "False" THEN "False" ELSE "raise"]}
Request == [remote : {TRUE}, result : RequestResults]

\* create_project (lines 47-73), upload_consent (lines 75-132),
\* create_personal_voice (lines 167-211), get_voice_status (lines 213-239):
\* whether the step gets to its request, and what it reports
StepOutcomes(step, f, consent_file, sample_files) ==
  CASE step = "upload_consent" ->
         IF os_path_exists(f, consent_file) = "True"
           THEN Request ELSE NoRequest(os_path_exists(f, consent_file))
    [] step = "create_personal_voice" ->
         IF FirstNotFound(f, sample_files) = "True"
           THEN Request ELSE NoRequest(FirstNotFound(f, sample_files))
    [] OTHER -> Request

\* mutant of ExitsAfter: main goes on whatever the step reported
ExitsAfter_never(result) == FALSE

\* lines 346-347, 358-359, 368-369: `if not ..._success: sys.exit(1)`; an
\* exception ends the process as well
ExitsAfter(result) == result # "True"

RECURSIVE RemoveTempFiles(_, _)
\* lines 378-383: the cleanup loop; what os.path.exists or os.remove raises
\* is caught and printed
RemoveTempFiles(f, list) ==
  IF list = <<>> THEN f
  ELSE RemoveTempFiles(IF os_path_exists(f, Head(list)) = "True"
                         THEN RemoveIfExists(f, Head(list).path)
                         ELSE f,
                       Tail(list))

\* lines 302-328: the arguments are parsed, fewer than 2 samples end the run
create_personal_voice_main(c, ss) ==
  /\ epc = "idle"
  /\ pc = "idle"
  /\ bpc = "idle"
  /\ mpc = "idle"
  /\ tpc = "idle"
  /\ ncalls = 0
  /\ consent' = c
  /\ samples' = ss
  /\ sample_idx' = 1
  /\ converted_consent_file' = PyNone
  /\ converted_sample_files' = <<>>
  /\ main_temp_files' = <<>>
  /\ steps' = <<>>
  /\ disk_at_start' = fs
  /\ IF Len(ss) < 2
       THEN epc' = "exited" /\ exit_status' = 1
       ELSE epc' = "consent" /\ exit_status' = exit_status
  /\ UNCHANGED conversion
  /\ UNCHANGED beside_enroll

\* lines 331 and 338: convert_to_wav(args.consent), convert_to_wav(sample_file)
EnrollConvert ==
  /\ epc \in {"consent", "sample"}
  /\ Enter("enroll", IF epc = "consent" THEN consent ELSE samples[sample_idx],
           None, FALSE)
  /\ epc' = epc \o "_call"
  /\ UNCHANGED <<consent, samples, sample_idx, converted_consent_file,
                 converted_sample_files, main_temp_files, steps, exit_status,
                 disk_at_start>>
  /\ UNCHANGED batch
  /\ UNCHANGED cli
  /\ UNCHANGED beside_enroll

\* lines 331-342: the return value is kept whole; a sample's is appended to
\* temp_files when it differs from the sample path.  An exception of the
\* conversion ends the process.
EnrollConverted ==
  /\ epc \in {"consent_call", "sample_call"}
  /\ pc = "done"
  /\ IF ret.kind = "raise"
       THEN /\ epc' = "exited"
            /\ exit_status' = 1
            /\ UNCHANGED <<sample_idx, converted_consent_file,
                           converted_sample_files, main_temp_files>>
       ELSE IF epc = "consent_call"
         THEN /\ converted_consent_file' = Received(ret)
              /\ epc' = "sample"
              /\ UNCHANGED <<sample_idx, converted_sample_files,
                             main_temp_files, exit_status>>
         ELSE /\ converted_sample_files' =
                   Append(converted_sample_files, Received(ret))
              /\ main_temp_files' =
                   IF Received(ret) # PyStr(samples[sample_idx])
                     THEN Append(main_temp_files, Received(ret))
                     ELSE main_temp_files
              /\ sample_idx' = sample_idx + 1
              /\ epc' = IF sample_idx < Len(samples) THEN "sample" ELSE "steps"
              /\ UNCHANGED <<converted_consent_file, exit_status>>
  /\ FrameGone
  /\ ncalls' = 0
  /\ stdout' = <<>>
  /\ probes' = <<>>
  /\ UNCHANGED <<fs, PYDUB_AVAILABLE, quiet, handed>>
  /\ UNCHANGED <<consent, samples, steps, disk_at_start>>
  /\ UNCHANGED batch
  /\ UNCHANGED cli
  /\ UNCHANGED beside_enroll

\* lines 344-386: the next step of the workflow is called; after
\* get_voice_status the details are displayed, the temp files cleaned up and
\* main returns
EnrollStep ==
  /\ epc = "steps"
  /\ LET step == Steps[Len(steps) + 1]
     IN \E o \in StepOutcomes(step, fs, converted_consent_file,
                              converted_sample_files) :
          /\ steps' = Append(steps, [step |-> step, remote |-> o.remote,
                                     result |-> o.result])
          /\ IF step = "get_voice_status"
               THEN /\ epc' = "exited"
                    /\ exit_status' = IF o.result = "raise" THEN 1 ELSE 0
                    /\ fs' = IF o.result = "raise" THEN fs
                             ELSE RemoveTempFiles(fs, main_temp_files)
               ELSE /\ epc' = IF ExitsAfter(o.result) THEN "exited" ELSE "steps"
                    /\ exit_status' = IF ExitsAfter(o.result) THEN 1 ELSE exit_status
                    /\ fs' = fs
  /\ UNCHANGED <<consent, samples, sample_idx, converted_consent_file,
                 converted_sample_files, main_temp_files, disk_at_start>>
  /\ UNCHANGED <<PYDUB_AVAILABLE, pc, ret, trace, handed, ncalls, stdout, probes>>
  /\ UNCHANGED frame
  /\ UNCHANGED batch
  /\ UNCHANGED cli
  /\ UNCHANGED beside_enroll

\* --------------------- improve_transcript.py: improve_long_transcript
\* A transcript is a sequence of one-character strings.  The model follows
\* one call: the split into pieces (lines 198-201), the loop that fills a
\* group and sends it when the next piece would not fit (lines 209-221), the
\* last group (lines 224-227) and the join (line 230).  The client's answer
\* to a request is chosen at the step that makes it.
TextChars == {"a", "b", "\n"}
Transcripts == UNION {[1..n -> TextChars] : n \in 1..MaxText}
NL == <<"\n">>
BlankLine == <<"\n", "\n">>

StartsWith(s, sep) == Len(s) >= Len(sep) /\ SubSeq(s, 1, Len(sep)) = sep
\* `sep in s`
Contains(s, sep) == \E i \in 1..Len(s) : StartsWith(SubSeq(s, i, Len(s)), sep)

RECURSIVE SplitFrom(_, _, _)
\* str.split(sep), reading s from the left; piece is the piece being read
SplitFrom(s, sep, piece) ==
  IF s = <<>> THEN <<piece>>
  ELSE IF StartsWith(s, sep)
       THEN <<piece>> \o SplitFrom(SubSeq(s, Len(sep) + 1, Len(s)), sep, <<>>)
       ELSE SplitFrom(Tail(s), sep, Append(piece, Head(s)))

split(s, sep) == SplitFrom(s, sep, <<>>)

RECURSIVE join(_, _)
\* sep.join(parts)
join(sep, parts) ==
  IF parts = <<>> THEN <<>>
  ELSE IF Len(parts) = 1 THEN parts[1]
       ELSE parts[1] \o sep \o join(sep, Tail(parts))

\* what a reply's message.content can be: a text, or None
Improvements == {<<"c">>, <<"d">>}
\* client.chat.completions.create and the reading of its reply (lines
\* 240-249): an exception, or a reply with its content
Replies ==
  {[raised |-> FALSE, content |-> PyStr(t)] : t \in Improvements}
    \cup {[raised |-> FALSE, content |-> PyNone],
          [raised |-> TRUE, content |-> PyNone]}

\* mutant of process_chunk: a failed request contributes nothing
process_chunk_drops(chunk_text, reply) ==
  IF reply.raised THEN PyStr(<<>>) ELSE reply.content
\* process_chunk (lines 232-255): the reply's content, or the text itself
\* when the request raised
process_chunk(chunk_text, reply) ==
  IF reply.raised THEN PyStr(chunk_text) ELSE reply.content

\* chunk_size (line 207)
chunk_size == max_tokens * 2

\* the call: improve_transcript_with_gpt makes it for a transcript longer
\* than max_tokens * 2 characters (lines 159-160)
improve_long_transcript(t, m) ==
  /\ ipc = "idle"
  /\ Len(t) > m * 2
  /\ ipc' = "loop"
  /\ transcript_text' = t
  /\ max_tokens' = m
  /\ chunks' = IF Contains(t, BlankLine) THEN split(t, BlankLine)
                                         ELSE split(t, NL)
  /\ chunk_i' = 1
  /\ current_chunk' = <<>>
  /\ current_length' = 0
  /\ processed_chunks' = <<>>
  /\ UNCHANGED <<sent, improved, beside_improve>>

\* one iteration of `for chunk in chunks` (lines 209-221)
ImproveChunk ==
  /\ ipc = "loop"
  /\ chunk_i <= Len(chunks)
  /\ LET chunk == chunks[chunk_i]
     IN IF current_length + Len(chunk) > chunk_size /\ current_chunk # <<>>
        THEN \E reply \in Replies :
               LET chunk_text == join(NL, current_chunk)
               IN /\ processed_chunks' =
                       Append(processed_chunks, process_chunk(chunk_text, reply))
                  /\ sent' = Append(sent, [group |-> current_chunk,
                                           chunk_text |-> chunk_text,
                                           reply |-> reply])
                  /\ current_chunk' = <<chunk>>
                  /\ current_length' = Len(chunk)
        ELSE /\ current_chunk' = Append(current_chunk, chunk)
             /\ current_length' = current_length + Len(chunk)
             /\ UNCHANGED <<processed_chunks, sent>>
  /\ chunk_i' = chunk_i + 1
  /\ UNCHANGED <<ipc, transcript_text, max_tokens, chunks, improved,
                 beside_improve>>

AllStr(values) == \A i \in 1..Len(values) : values[i].type = "str"

\* the remaining group and the join (lines 224-230); str.join raises
\* TypeError when an item is None
ImproveRemaining ==
  /\ ipc = "loop"
  /\ chunk_i > Len(chunks)
  /\ \E reply \in Replies :
       LET chunk_text == join(NL, current_chunk)
           all == IF current_chunk # <<>>
                  THEN Append(processed_chunks, process_chunk(chunk_text, reply))
                  ELSE processed_chunks
       IN /\ processed_chunks' = all
          /\ sent' = IF current_chunk # <<>>
                     THEN Append(sent, [group |-> current_chunk,
                                        chunk_text |-> chunk_text,
                                        reply |-> reply])
                     ELSE sent
          /\ IF AllStr(all)
             THEN /\ ipc' = "returned"
                  /\ improved' =
                       PyStr(join(BlankLine, [i \in 1..Len(all) |-> all[i].path]))
             ELSE /\ ipc' = "raised"
                  /\ UNCHANGED improved
  /\ UNCHANGED <<transcript_text, max_tokens, chunks, chunk_i, current_chunk,
                 current_length, beside_improve>>

\* ------------------------------------------------------------ specification
InitFs ==
  {f \in [Paths -> {Absent, WavOther, Media, Corrupt}] :
     /\ f[aWAV] \in {Absent, WavOther}
     /\ f[oWav] \in {Absent, WavOther}
     /\ f[bMp3] \in {Absent, Media, Corrupt}
     /\ \A t \in TmpNames : f[t] = Absent}

Init ==
  /\ fs \in InitFs
  /\ PYDUB_AVAILABLE \in BOOLEAN
  /\ pc = "idle"
  /\ input_file = None
  /\ output_file = None
  /\ given_output = None
  /\ quiet = FALSE
  /\ tmp = None
  /\ ret = NoRet
  /\ trace = <<>>
  /\ before = NoFs
  /\ caller = "top"
  /\ handed = {}
  /\ ncalls = 0
  /\ bpc = "idle"
  /\ file_list = <<>>
  /\ idx = 1
  /\ converted_files = <<>>
  /\ temp_files = <<>>
  /\ results = <<>>
  /\ stdout = <<>>
  /\ probes = <<>>
  /\ mpc = "idle"
  /\ args = NoArgs
  /\ exit_code = -1
  /\ wpc = "idle"
  /\ done = FALSE
  /\ all_results = <<>>
  /\ elapsed = 0
  /\ tpc = "idle"
  /\ audio_file_path = None
  /\ wav_file_path = PyNone
  /\ temp_file = FALSE
  /\ opc = "idle"
  /\ max_attempts = 0
  /\ attempt = 0
  /\ polls = <<>>
  /\ operation_result = NoResult
  /\ epc = "idle"
  /\ consent = None
  /\ samples = <<>>
  /\ sample_idx = 1
  /\ converted_consent_file = PyNone
  /\ converted_sample_files = <<>>
  /\ main_temp_files = <<>>
  /\ steps = <<>>
  /\ exit_status = -1
  /\ disk_at_start = NoFs
  /\ ipc = "idle"
  /\ transcript_text = <<>>
  /\ max_tokens = 0
  /\ chunks = <<>>
  /\ chunk_i = 1
  /\ current_chunk = <<>>
  /\ current_length = 0
  /\ processed_chunks = <<>>
  /\ sent = <<>>
  /\ improved = PyNone

Next ==
  \/ \E inp \in CallerInputs(fs), out \in CallerOutputs, q \in BOOLEAN :
       convert_to_wav(inp, out, q)
  \/ Alloc
  \/ Pydub
  \/ CheckFfmpeg
  \/ Ffmpeg
  \/ Ffprobe
  \/ TopReturn
  \/ RemoveTemp
  \/ \E list \in BoundedLists(CallerInputs(fs)), q \in BOOLEAN :
       convert_files_to_wav(list, q)
  \/ BatchCall
  \/ BatchResult
  \/ BatchReturn
  \/ Cleanup

Spec == Init /\ [][Next]_vars

\* one run of the command line
NextMain ==
  \/ \E inp \in CallerInputs(fs), out \in CallerOutputs, q \in BOOLEAN :
       main(inp, out, q)
  \/ MainProbe
  \/ MainCall
  \/ Alloc
  \/ Pydub
  \/ CheckFfmpeg
  \/ Ffmpeg
  \/ Ffprobe
  \/ MainReturn

SpecMain == Init /\ [][NextMain]_vars

\* the wait of transcribe_from_file for its recognizer; no file matters here
InitWait == Init /\ fs = NoFs /\ ~PYDUB_AVAILABLE

NextWait ==
  \/ start_continuous_recognition
  \/ \E reason \in {"RecognizedSpeech", "NoMatch"}, text \in Texts :
       recognized_cb(reason, text)
  \/ stop_cb
  \/ WhileNotDone
  \/ TimeoutCheck
  \/ stop_continuous_recognition

\* the main thread keeps running; the recognizer's callbacks come when the
\* service sends them, if ever
SpecWait ==
  /\ InitWait
  /\ [][NextWait]_vars
  /\ WF_vars(start_continuous_recognition)
  /\ WF_vars(WhileNotDone)
  /\ WF_vars(TimeoutCheck)
  /\ WF_vars(stop_continuous_recognition)

\* one call of transcribe_from_file
NextTranscribe ==
  \/ \E path \in CallerInputs(fs) : transcribe_from_file(path)
  \/ Alloc
  \/ Pydub
  \/ CheckFfmpeg
  \/ Ffmpeg
  \/ Ffprobe
  \/ TranscribeAssign
  \/ TranscribeBody
  \/ TranscribeFinally

SpecTranscribe == Init /\ [][NextTranscribe]_vars

\* one call of monitor_operation; no file matters here
NextMonitor ==
  \/ \E n \in 0..MaxAttempts : monitor_operation(n)
  \/ MonitorAttempt
  \/ MonitorTimedOut

SpecMonitor == InitWait /\ [][NextMonitor]_vars

\* one run of create_personal_voice.py: a.WAV is on disk, b.mp3 is an audio
\* file to convert, o.wav does not exist
InitEnroll ==
  /\ Init
  /\ fs = [p \in Paths |-> CASE p = aWAV -> WavOther
                             [] p = bMp3 -> Media
                             [] OTHER -> Absent]

SampleLists == UNION {[1..n -> UserPaths] : n \in 1..MaxSamples}

NextEnroll ==
  \/ \E c \in UserPaths, ss \in SampleLists : create_personal_voice_main(c, ss)
  \/ EnrollConvert
  \/ Alloc
  \/ Pydub
  \/ CheckFfmpeg
  \/ Ffmpeg
  \/ Ffprobe
  \/ EnrollConverted
  \/ EnrollStep

SpecEnroll == InitEnroll /\ [][NextEnroll]_vars

\* one call of improve_long_transcript; no file matters here
NextImprove ==
  \/ \E t \in Transcripts, m \in 1..MaxTokens : improve_long_transcript(t, m)
  \/ ImproveChunk
  \/ ImproveRemaining

SpecImprove == InitWait /\ [][NextImprove]_vars


\* ------------------------------------------------------------------ claims
\* the extension of p is .wav in any letter case
HasWavExt(p) == Lower(PathSuffix(p)) = DotWav

InCall == pc # "idle"
Done == pc = "done"

Events(step) == {trace[i][2] : i \in {j \in DOMAIN trace : trace[j][1] = step}}
Tried(step) == Events(step) # {}

\* the call ended at once, as a pass-through of its input: nothing allocated,
\* nothing created or changed, no backend step taken
PassedThrough ==
  /\ Done
  /\ ret = Return(TRUE, input_file)
  /\ tmp = None
  /\ output_file = given_output
  /\ trace = <<>>
  /\ fs = before

\* C1 as stated: for any input path whose extension is .wav in any letter
\* case, convert_to_wav returns success with the path it was given, allocates
\* no temporary file, creates no file and attempts neither backend.
C1_AnyWavPathPassesThrough == (InCall /\ HasWavExt(input_file)) => PassedThrough

\* C1, amended: for any EXISTING input path whose extension is .wav in any
\* letter case, convert_to_wav returns success with the path it was given,
\* allocates no temporary file, creates no file and attempts neither backend,
\* whatever output_file and quiet are; its result is again an existing .wav
\* path, so that applying convert_to_wav to it returns that path again.
C1_ExistingWavPassesThrough ==
  (InCall /\ HasWavExt(input_file) /\ Exists(before, input_file)) =>
    /\ PassedThrough
    /\ ~InputMissing(fs, ret.path)
    /\ file_extension(ret.path) = DotWav

\* an upper-case .WAV input that exists, called with an output_file, quietly
C1_Witness ==
  /\ Done
  /\ input_file = aWAV
  /\ Exists(before, aWAV)
  /\ given_output = oWav
  /\ quiet
  /\ ret = Return(TRUE, aWAV)

\* C2: for any input path that does not exist, convert_to_wav returns
\* (False, None) regardless of output_file, quiet, the extension and the
\* backends, before allocating a temporary file or attempting any backend.
C2_MissingInputFails ==
  (InCall /\ ~Exists(before, input_file)) =>
    /\ Done
    /\ ret = Return(FALSE, None)
    /\ tmp = None
    /\ output_file = given_output
    /\ trace = <<>>
    /\ fs = before

\* a missing input with a .wav extension, and one without, pydub installed
C2_Witness ==
  /\ Done
  /\ ~Exists(before, input_file)
  /\ \/ HasWavExt(input_file) /\ given_output = oWav
     \/ input_file = bMp3 /\ PYDUB_AVAILABLE /\ given_output = None
  /\ ret = Return(FALSE, None)

PydubFailed == Tried("pydub") /\ "ok" \notin Events("pydub")

\* C3: if the pydub strategy fails at any of its steps for an existing non-WAV
\* input, the failure is absorbed (the call goes on to the ffmpeg strategy
\* instead of ending), and if ffmpeg is available and its conversion succeeds
\* convert_to_wav returns (True, destination), no exception reaching the caller.
C3_FallbackSucceeds ==
  /\ (InCall /\ PydubFailed) =>
       /\ pc # "pydub"
       /\ Done => Tried("check_ffmpeg")
  /\ (Done /\ PydubFailed /\ "exit0" \in Events("ffmpeg")) =>
       /\ ret = Return(TRUE, output_file)
       /\ Exists(fs, output_file)

\* pydub failed while exporting, ffmpeg then converted
C3_Witness ==
  /\ Done
  /\ Events("pydub") = {"export"}
  /\ Events("check_ffmpeg") = {"ok"}
  /\ "exit0" \in Events("ffmpeg")
  /\ ret = Return(TRUE, output_file)


\* an existing input that convert_to_wav has to convert
NeedsConversion == Exists(before, input_file) /\ ~HasWavExt(input_file)

\* C4: whenever convert_to_wav ends in failure because both strategies are
\* unavailable or fail, the result is (False, None) and no destination file the
\* call created (the temporary file allocated when output_file was omitted, a
\* partial output of the pydub strategy) is left on disk.
C4_NoDestinationLeftOnFailure ==
  (Done /\ NeedsConversion /\ ret.kind = "return" /\ ~ret.success) =>
    /\ ret = Return(FALSE, None)
    /\ ~Exists(before, output_file) => ~Exists(fs, output_file)

\* C5: convert_to_wav never deletes or modifies the input file: during and
\* after any call, in any outcome and for any output_file (the input's own
\* path included), the input file is as it was when the call began.
C5_InputUntouched == InCall => fs[input_file] = before[input_file]

\* C6: the only file convert_to_wav ever deletes is a destination the same
\* call created and failed to finish: a file that existed before the call
\* still exists, and a file it returns successfully exists (stated for a
\* destination other than the input itself, whose fate is C5's).
C6_DeletesOnlyOwnUnfinished ==
  (InCall /\ given_output # input_file) =>
    /\ \A p \in Paths : Exists(before, p) => Exists(fs, p)
    /\ (Done /\ ret.success) => Exists(fs, ret.path)

RECURSIVE SuccessPaths(_)
\* the result paths of the successful conversions of rs, in order
SuccessPaths(rs) ==
  IF rs = <<>> THEN <<>>
  ELSE IF Head(rs).ret.success
    THEN <<Head(rs).ret.path>> \o SuccessPaths(Tail(rs))
    ELSE SuccessPaths(Tail(rs))

RECURSIVE OwnedPaths(_)
\* the result paths of rs that differ from their input path, in order
OwnedPaths(rs) ==
  IF rs = <<>> THEN <<>>
  ELSE IF Head(rs).ret.success /\ Head(rs).ret.path # Head(rs).file_path
    THEN <<Head(rs).ret.path>> \o OwnedPaths(Tail(rs))
    ELSE OwnedPaths(Tail(rs))

InBatch == bpc \in {"loop", "call", "returned"}
Range(seq) == {seq[i] : i \in DOMAIN seq}

C8_TempFilesAreTheOwnedOnes ==
  InBatch =>
    /\ temp_files = OwnedPaths(results)
    /\ \A i \in DOMAIN results :
         (results[i].ret.success /\ results[i].tmp # None) =>
           results[i].tmp \in Range(temp_files)
    /\ Range(temp_files) \cap Range(file_list) = {}
    /\ \A p \in Range(file_list) :
         Exists(RemoveAll(fs, temp_files), p) = Exists(fs, p)

\* a pass-through and a conversion in one batch
C8_Witness ==
  /\ bpc = "returned"
  /\ Len(converted_files) = 2
  /\ Len(temp_files) = 1
  /\ \E i \in DOMAIN results : results[i].ret.path = results[i].file_path
  /\ \E i \in DOMAIN results : results[i].tmp = results[i].ret.path

\* C9: a temporary path handed out by one call did not exist when that call
\* began, so it is never one an earlier call handed out and that still exists;
\* the temporary paths of one batch are pairwise distinct.
C9_TempPathsDistinct ==
  /\ (InCall /\ tmp # None) =>
       /\ ~Exists(before, tmp)
       /\ \A h \in handed : Exists(before, h) => h # tmp
  /\ \A i, j \in DOMAIN temp_files : i # j => temp_files[i] # temp_files[j]
  /\ \A i \in DOMAIN temp_files : InCall /\ tmp # None => temp_files[i] # tmp

\* the same non-WAV input converted twice, both temp files on disk
C9_Witness ==
  \/ /\ bpc = "returned"
     /\ file_list = <<bMp3, bMp3>>
     /\ Len(temp_files) = 2
     /\ \A i \in DOMAIN temp_files : Exists(fs, temp_files[i])
  \/ /\ Done
     /\ input_file = bMp3
     /\ ret.success
     /\ ret.path = tmp
     /\ handed # {}
     /\ \A h \in handed : Exists(fs, h)

\* a backend was at hand and nothing around the call went wrong: pydub did
\* not raise, or ffmpeg was found by the probe and its run was not disturbed
BackendWorked ==
  /\ PYDUB_AVAILABLE \/ "ok" \in Events("check_ffmpeg")
  /\ Events("pydub") \subseteq {"ok"}
  /\ Events("check_ffmpeg") \subseteq {"ok"}
  /\ Events("ffmpeg") \cap {"failed", "notfound"} = {}

\* C10: for an existing, valid non-WAV input and at least one available
\* backend, convert_to_wav returns success and the returned path is on disk
\* as a WAV file with 1 channel, 16000 Hz and 16-bit samples, for a
\* caller-supplied output_file and for the temporary file alike.
C10_ValidInputConverts ==
  (Done /\ NeedsConversion /\ before[input_file] = Media /\ BackendWorked
        /\ given_output # input_file /\ ret.kind # "raise") =>
    /\ ret.success
    /\ ret.path = output_file
    /\ fs[ret.path] = Wav(1, 16000, 16)


\* the positions of the events of step in the call's trace
Pos(step) == {i \in DOMAIN trace : trace[i][1] = step}
Before(a, b) == \A i \in Pos(a), j \in Pos(b) : i < j

AlreadyWav == ret = Return(TRUE, input_file) /\ trace = <<>>
ConvertedViaEmbeddedLibrary == ret.success /\ "ok" \in Events("pydub")
ConvertedViaExternalTool == ret.success /\ "exit0" \in Events("ffmpeg")
Failed == ret = Return(FALSE, None)

\* C11: every convert_to_wav call ends in exactly one of the four outcomes
\* AlreadyWav, ConvertedViaEmbeddedLibrary, ConvertedViaExternalTool, Failed,
\* and gets there in the order: extension check, pydub if present, ffmpeg
\* only if pydub is absent or failed; ffmpeg is never probed or run after a
\* successful pydub conversion, and pydub is never tried after ffmpeg.
C11_FourOutcomesInOrder ==
  /\ Done =>
       /\ ret.kind = "return"
       /\ Cardinality({k \in 1..4 :
            \/ k = 1 /\ AlreadyWav
            \/ k = 2 /\ ConvertedViaEmbeddedLibrary
            \/ k = 3 /\ ConvertedViaExternalTool
            \/ k = 4 /\ Failed}) = 1
  /\ InCall =>
       /\ Tried("pydub") => PYDUB_AVAILABLE
       /\ Cardinality(Pos("pydub")) <= 1
       /\ Before("pydub", "check_ffmpeg")
       /\ Before("pydub", "ffmpeg")
       /\ Before("check_ffmpeg", "ffmpeg")
       /\ Tried("check_ffmpeg") => (~PYDUB_AVAILABLE \/ PydubFailed)
       /\ Tried("ffmpeg") => "ok" \in Events("check_ffmpeg")

FfmpegExitedNonZero == Events("ffmpeg") \cap {"undecodable", "refused", "failed"} # {}

\* C12: when the ffmpeg process runs and exits with a non-zero status,
\* convert_to_wav_with_ffmpeg removes the destination if it exists and then
\* returns (False, None): after such a return the destination is not on disk.
C12_NonZeroExitRemovesDestination ==
  (InCall /\ FfmpegExitedNonZero) =>
    /\ Done
    /\ ret = Return(FALSE, None)
    /\ ~Exists(fs, output_file)
    /\ trace[Len(trace)][1] \in {"ffmpeg", "remove"}

\* ffmpeg failed while writing its output, and the partial file was removed
C12_Witness ==
  /\ Done
  /\ Events("ffmpeg") = {"failed"}
  /\ Tried("remove")
  /\ ~Exists(fs, output_file)
  /\ ret = Return(FALSE, None)

\* C13: check_ffmpeg returns True only if ffmpeg was executed and exited
\* successfully, returns False when it was not found and when it ran but
\* errored, and never raises, however the attempt to execute it fails.
C13_ProbeNeverRaises ==
  \A i \in Pos("check_ffmpeg") :
    IF trace[i][2] = "ok"
      THEN Len(trace) > i \/ pc = "ffmpeg"
      ELSE Done /\ ret = Return(FALSE, None) /\ Len(trace) = i

\* C14: after a successful ffmpeg conversion the outcome of the metadata
\* query (ffprobe succeeding, exiting with an error, or absent) never changes
\* the result: (True, destination), and the destination file stays in place.
C14_MetadataProbeIgnored ==
  (InCall /\ Tried("ffprobe")) =>
    /\ Done
    /\ "exit0" \in Events("ffmpeg")
    /\ ret = Return(TRUE, output_file)
    /\ fs[output_file] = Wav(1, 16000, 16)

\* ffprobe is not installed, the conversion still succeeded
C14_Witness ==
  /\ Done
  /\ Events("ffprobe") = {"notfound"}
  /\ ret = Return(TRUE, output_file)
  /\ Exists(fs, output_file)

\* C15: main returns exit code 0 exactly when convert_to_wav reported
\* success and 1 exactly when it reported failure; in quiet mode a successful
\* run prints the resulting path and nothing else, a failed run prints nothing.
C15_ExitCodeFollowsResult ==
  mpc = "exited" =>
    /\ ret.kind = "return"
    /\ exit_code = 0 <=> ret.success
    /\ exit_code = 1 <=> ~ret.success
    /\ args.quiet => stdout = IF ret.success THEN <<ret.path>> ELSE <<>>

\* a quiet run converted b.mp3 into a temporary file and printed its path
C15_Witness ==
  /\ mpc = "exited"
  /\ args.quiet
  /\ exit_code = 0
  /\ Tried("mkstemp")
  /\ stdout = <<tmp>>

\* C16: main never lets an exception escape: whatever goes wrong after the
\* arguments are parsed, it ends by returning an exit code.
C16_NoExceptionEscapesMain == mpc # "raised"

\* the answers of the probes made on behalf of convert_to_wav calls
ProbesOfMain == Len(probes) - Cardinality(Pos("check_ffmpeg"))

\* C20 as stated: within one invocation the availability of ffmpeg is probed
\* at most once, and one answer serves every conversion of that invocation.
C20_ProbedOncePerInvocation ==
  /\ Len(probes) <= 1
  /\ \A i, j \in DOMAIN probes : probes[i] = probes[j]

\* C20 (amended): PYDUB_AVAILABLE is fixed at import and never changes.  The
\* availability of ffmpeg is not cached but probed on demand: at most once
\* inside a convert_to_wav call, and once more by main itself exactly when
\* main is not quiet, so a command-line run probes at most twice.
C20_ProbedOnDemand ==
  /\ [][PYDUB_AVAILABLE' = PYDUB_AVAILABLE]_vars
  /\ [](/\ Cardinality(Pos("check_ffmpeg")) <= 1
        /\ ProbesOfMain \in {0, 1}
        /\ args.quiet => ProbesOfMain = 0
        /\ (mpc \in {"call", "exited"} /\ ~args.quiet) => ProbesOfMain = 1)

\* main found ffmpeg, the conversion probed again and did not find it
C20_Witness ==
  /\ mpc = "exited"
  /\ probes = <<"True", "False">>
  /\ Tried("check_ffmpeg")

\* the call got its destination: it is past lines 69-72
Allocated == InCall /\ pc # "alloc" /\ (trace # <<>> \/ ret.kind = "none")

\* C17: for an existing non-WAV input the destination is the caller's
\* output_file whenever one is provided (no temporary file is allocated, a
\* successful result path equals output_file), and otherwise a temporary file
\* with suffix .wav that did not exist before the call; pydub and ffmpeg both
\* write to that one destination.
C17_DestinationIsOutputOrFreshTemp ==
  (InCall /\ NeedsConversion) =>
    /\ given_output \in UserPaths =>
         /\ tmp = None
         /\ output_file = given_output
         /\ \A t \in TmpNames : fs[t] = before[t]
         /\ (Done /\ ret.success) => ret.path = given_output
    /\ (given_output \notin UserPaths /\ Allocated) =>
         /\ Tried("mkstemp")
         /\ tmp \in TmpNames
         /\ output_file = tmp
         /\ ~Exists(before, tmp)
         /\ PathSuffix(tmp) = DotWav
         /\ (Done /\ ret.success) => ret.path = tmp
    /\ ("export" \in Events("pydub") /\ ~Tried("ffmpeg")) =>
         fs[output_file] = Partial
    /\ ("ok" \in Events("pydub") \/ "exit0" \in Events("ffmpeg")) =>
         fs[output_file] = Wav(1, 16000, 16)

\* pydub left an unfinished export in the caller's output file, ffmpeg then
\* wrote the converted audio to the same path
C17_Witness ==
  /\ Done
  /\ given_output = oWav
  /\ "export" \in Events("pydub")
  /\ "exit0" \in Events("ffmpeg")
  /\ ret = Return(TRUE, oWav)
  /\ fs[oWav] = Wav(1, 16000, 16)

\* the files on disk now that were not there when the call began
Created == {p \in Paths : Exists(fs, p) /\ ~Exists(before, p)}

\* C18: a convert_to_wav call creates at most one new file and that file is
\* the destination: no other path comes into existence in any outcome, and on
\* success by either backend the destination exists, the only new file unless
\* it was there before.
C18_OnlyTheDestinationIsNew ==
  InCall =>
    /\ Created \subseteq {output_file}
    /\ (Done /\ ret.success /\ NeedsConversion) =>
         /\ Exists(fs, output_file)
         /\ ~Exists(before, output_file) => Created = {output_file}

\* pydub failed, ffmpeg converted: one new file, the temporary destination
C18_Witness ==
  /\ Done
  /\ PydubFailed
  /\ "exit0" \in Events("ffmpeg")
  /\ ret = Return(TRUE, tmp)
  /\ Created = {tmp}

\* C19: a failure (False, None) for an existing non-WAV input is returned
\* only after ffmpeg was probed within the same call, the probe coming after
\* any pydub attempt: either the probe said unavailable or the ffmpeg run
\* that followed exited non-zero.  A pydub failure is never the result.
C19_FailureOnlyAfterProbe ==
  (Done /\ NeedsConversion /\ ret = Return(FALSE, None)) =>
    /\ Cardinality(Pos("check_ffmpeg")) = 1
    /\ Before("pydub", "check_ffmpeg")
    /\ trace[Len(trace)][1] # "pydub"
    /\ \/ Events("check_ffmpeg") \subseteq {"error", "notfound"} /\ ~Tried("ffmpeg")
       \/ Events("check_ffmpeg") = {"ok"} /\ FfmpegExitedNonZero

\* pydub could not decode the input and ffmpeg is not installed
C19_Witness ==
  /\ Done
  /\ Events("pydub") = {"decode"}
  /\ Events("check_ffmpeg") = {"notfound"}
  /\ ret = Return(FALSE, None)

\* the batch function is over: it returned its lists or an exception left it
BatchOver == bpc \in {"returned", "raised"}

\* the outcome of one item, read with nothing but the item's own path
OwnOutcome(r) ==
  /\ r.ret.kind = "return"
  /\ IF r.ret.success
       THEN IF HasWavExt(r.file_path)
              THEN r.ret.path = r.file_path /\ r.tmp = None
              ELSE r.ret.path = r.tmp /\ r.tmp \in TmpNames
       ELSE r.ret.path = None

\* C21: the items of a batch are independent: convert_files_to_wav(xs ++ ys)
\* yields the converted list and the temp list of xs followed by those of ys,
\* for every way of splitting its list, and every path of the list gets its
\* own outcome whatever the other paths are and however they ended.
C21_BatchItemsIndependent ==
  BatchOver =>
    /\ bpc = "returned"
    /\ Len(results) = Len(file_list)
    /\ \A i \in DOMAIN results :
         results[i].file_path = file_list[i] /\ OwnOutcome(results[i])
    /\ \A k \in 0..Len(results) :
         LET xs == SubSeq(results, 1, k)
             ys == SubSeq(results, k + 1, Len(results))
         IN /\ converted_files = SuccessPaths(xs) \o SuccessPaths(ys)
            /\ temp_files = OwnedPaths(xs) \o OwnedPaths(ys)

\* the same without the batches an exception ended
C21_IndependentWhenReturned == bpc = "returned" => C21_BatchItemsIndependent

\* C22: the wait loop of transcribe_from_file always terminates: once the
\* recognition is started the loop is left and the recognizer stopped, even
\* if session_stopped and canceled never fire and nothing was recognized.
C22_WaitLoopTerminates == (wpc # "idle") ~> (wpc = "stopped")

\* what the timeout does bound: the wait once an utterance has been recognized
C22_TerminatesOnceRecognized == (all_results # <<>>) ~> (wpc = "stopped")

\* transcribe_from_file is over, past its conversion
TranscribeOver == tpc \in {"returned", "cleanup_raised"}

\* C23: transcribe_from_file tracks the ownership of the WAV it got from
\* convert_to_wav: when it is over, after a transcription or after an
\* exception in it, a temporary WAV the conversion created is deleted, the
\* original input is still there, and the cleanup has raised nothing.
C23_OwnedWavCleanedUp ==
  TranscribeOver =>
    /\ tpc = "returned"
    /\ \A t \in TmpNames : Exists(fs, t) => Exists(before, t)
    /\ Exists(before, audio_file_path) => Exists(fs, audio_file_path)

\* the part of C23 the code keeps: the input file is never deleted
C23_InputKept ==
  (tpc # "idle" /\ Exists(before, audio_file_path)) =>
    fs[audio_file_path] = before[audio_file_path]

\* C24: every return of convert_to_wav and of convert_to_wav_with_ffmpeg is
\* (True, p) with p a path, the input on pass-through and the destination
\* otherwise, or (False, None): the flag is true exactly when a path is
\* returned.
C24_FlagIffPath ==
  (Done /\ ret.kind = "return") =>
    /\ ret.success <=> ret.path # None
    /\ ret.success => /\ ret.path \in Paths
                      /\ ret.path = IF trace = <<>> THEN input_file ELSE output_file
    /\ Tried("check_ffmpeg") =>
         \/ ret.success /\ ret.path = output_file /\ "exit0" \in Events("ffmpeg")
         \/ ~ret.success /\ ret.path = None

\* convert_to_wav_with_ffmpeg returned (True, destination) without pydub
C24_Witness ==
  /\ Done
  /\ ~PYDUB_AVAILABLE
  /\ Tried("check_ffmpeg")
  /\ ret.success
  /\ ret.path = output_file
  /\ ret.path \in Paths

\* the outcome pydub had in this call
PydubEvent == CHOOSE o \in Events("pydub") : TRUE

\* what the call returns, from its arguments and from what mkstemp, pydub,
\* the ffmpeg probe and the ffmpeg run did; quiet is not asked
ResultWhateverQuiet ==
  IF InputMissing(before, input_file) THEN Return(FALSE, None)
  ELSE IF file_extension(input_file) = DotWav THEN Return(TRUE, input_file)
  ELSE IF NoOutputGiven(given_output) /\ tmp = None THEN Raise
  ELSE IF "ok" \in Events("pydub") THEN Return(TRUE, output_file)
  ELSE IF "permission" \in Events("check_ffmpeg") THEN Raise
  ELSE IF "ok" \notin Events("check_ffmpeg") THEN Return(FALSE, None)
  ELSE IF "notfound" \in Events("ffmpeg") THEN Raise
  ELSE IF "exit0" \in Events("ffmpeg") THEN Return(TRUE, output_file)
  ELSE Return(FALSE, None)

\* the files the call leaves, likewise
FsWhateverQuiet ==
  LET f1 == IF tmp # None THEN [before EXCEPT ![tmp] = EmptyFile] ELSE before
      f2 == IF Tried("pydub")
              THEN PydubFs(f1, input_file, output_file, PydubEvent)
              ELSE f1
  IN IF ~Tried("ffmpeg") \/ "notfound" \in Events("ffmpeg")
       THEN fs = f2
       ELSE \E run \in RunOutcomes \ {"notfound"}, overwrite \in BOOLEAN :
              LET p == FfmpegProcess(f2, input_file, output_file, run, overwrite)
              IN /\ p.why \in Events("ffmpeg")
                 /\ fs = IF p.exit = 0 THEN p.fs
                         ELSE RemoveIfExists(p.fs, output_file)

\* C25: quiet only affects printing: what a convert_to_wav call returns and
\* the files it creates and deletes are determined by its input, its
\* output_file, the backends available and what they did, the same for quiet
\* and not quiet; the metadata query, made only when not quiet, changes
\* neither.
C25_QuietOnlyAffectsPrinting ==
  Done =>
    /\ ret = ResultWhateverQuiet
    /\ FsWhateverQuiet
    /\ Tried("ffprobe") => ~quiet
    /\ quiet => stdout = <<>>

\* a call that was not quiet, whose metadata query failed
C25_Witness ==
  /\ Done
  /\ ~quiet
  /\ Events("ffprobe") = {"error"}
  /\ ret = ResultWhateverQuiet
  /\ ret.success

\* the requests monitor_operation has made, in order
Requests == SelectSeq(polls, LAMBDA e : e # Slept)
IsTerminal(r) == Verdict(r) \in {"succeeded", "failed"}

\* C26: monitor_operation ends after at most max_attempts status requests:
\* (True, status) at the first reply reporting succeeded, (False, status) at
\* the first reporting failed or canceled, (False, None) once max_attempts
\* requests got no terminal status, be the replies in-progress statuses or
\* non-200; and it waits delay seconds between attempts.
C26_MonitorBoundedAndPaced ==
  /\ opc # "idle" => Len(Requests) <= max_attempts
  /\ opc = "returned" =>
       LET rs == Requests
       IN /\ \A i \in 1..(Len(rs) - 1) : ~IsTerminal(rs[i])
          /\ IF rs # <<>> /\ IsTerminal(rs[Len(rs)])
               THEN operation_result =
                      OperationReturn(Verdict(rs[Len(rs)]) = "succeeded", rs[Len(rs)])
               ELSE /\ operation_result = OperationReturn(FALSE, NoStatus)
                    /\ Len(rs) = max_attempts
  /\ \A i \in 1..(Len(polls) - 1) : polls[i] # Slept => polls[i + 1] = Slept

\* the same without the pacing
C26_MonitorBounded ==
  /\ opc # "idle" => Len(Requests) <= max_attempts
  /\ opc = "returned" =>
       LET rs == Requests
       IN /\ \A i \in 1..(Len(rs) - 1) : ~IsTerminal(rs[i])
          /\ IF rs # <<>> /\ IsTerminal(rs[Len(rs)])
               THEN operation_result =
                      OperationReturn(Verdict(rs[Len(rs)]) = "succeeded", rs[Len(rs)])
               ELSE /\ operation_result = OperationReturn(FALSE, NoStatus)
                    /\ Len(rs) = max_attempts

\* the steps called so far, by name
StepNames == [i \in DOMAIN steps |-> steps[i].step]

\* C27: create_personal_voice.main runs its remote steps strictly in the
\* order create_project, upload_consent, create_personal_voice,
\* get_voice_status, a step only if every earlier one reported success:
\* fewer than 2 samples, or a failure of one of the first three steps, ends
\* the process with exit status 1 and no later remote call.
C27_StepsInOrderStopAtFailure ==
  /\ Len(steps) <= Len(Steps)
  /\ StepNames = SubSeq(Steps, 1, Len(steps))
  /\ \A i \in 1..(Len(steps) - 1) : steps[i].result = "True"
  /\ (epc # "idle" /\ Len(samples) < 2) =>
       epc = "exited" /\ exit_status = 1 /\ steps = <<>>
  /\ \A i \in DOMAIN steps :
       (i < Len(Steps) /\ steps[i].result # "True") =>
         epc = "exited" /\ exit_status = 1 /\ Len(steps) = i
  /\ epc \in {"consent", "consent_call", "sample", "sample_call"} => steps = <<>>

\* create_project failed: exit status 1 and nothing called after it
C27_Witness ==
  /\ epc = "exited"
  /\ exit_status = 1
  /\ steps = <<[step |-> "create_project", remote |-> TRUE, result |-> "False"]>>

\* the workflow never gets past upload_consent: the consent it hands over is
\* a tuple, and os.path.exists raises TypeError for it (line 88)
EnrollStopsAtConsent ==
  /\ Len(steps) <= 2
  /\ Len(steps) = 2 => steps[2] = [step |-> "upload_consent", remote |-> FALSE,
                                   result |-> "raise"]

\* C28: when create_personal_voice.main ends, on success and on every
\* failure exit alike, every temporary WAV made while converting the consent
\* and the samples is deleted, and no original consent or sample file is.
C28_TempWavsDeletedAtExit ==
  epc = "exited" =>
    /\ \A t \in TmpNames : Exists(fs, t) => Exists(disk_at_start, t)
    /\ \A p \in UserPaths : fs[p] = disk_at_start[p]

\* the part of C28 the code keeps: no original file is deleted or changed
C28_OriginalsKept ==
  epc # "idle" => \A p \in UserPaths : fs[p] = disk_at_start[p]

\* ---- C29
ImproveOver == ipc \in {"returned", "raised"}

RECURSIVE Flatten(_)
Flatten(groups) ==
  IF groups = <<>> THEN <<>> ELSE Head(groups) \o Flatten(Tail(groups))

RECURSIVE TotalLength(_)
TotalLength(pieces) ==
  IF pieces = <<>> THEN 0 ELSE Len(Head(pieces)) + TotalLength(Tail(pieces))

\* the separator the transcript was split on
Separator == IF Contains(transcript_text, BlankLine) THEN BlankLine ELSE NL
\* the groups in the order their requests were made
Groups == [i \in 1..Len(sent) |-> sent[i].group]
\* what a request's group owes to the output
Contribution(request) ==
  IF request.reply.raised THEN PyStr(join(NL, request.group))
                          ELSE request.reply.content

\* C29: when improve_long_transcript is over, the groups it sent are, in
\* order and end to end, exactly the pieces of the transcript (which joined
\* by the separator give the transcript back); no group is empty and a
\* group of several pieces has at most max_tokens * 2 characters of pieces;
\* each group was the text of one request; there is one result per request,
\* the reply's content, or the group's own text when the request raised;
\* the call returns the results joined by blank lines, a str, unless a
\* reply came without content, and then it raises.
C29_ChunksPartitionAndFallback ==
  ImproveOver =>
    /\ join(Separator, chunks) = transcript_text
    /\ Flatten(Groups) = chunks
    /\ \A i \in 1..Len(sent) :
         /\ sent[i].group # <<>>
         /\ Len(sent[i].group) = 1
              \/ TotalLength(sent[i].group) <= max_tokens * 2
         /\ sent[i].chunk_text = join(NL, sent[i].group)
    /\ Len(processed_chunks) = Len(sent)
    /\ \A i \in 1..Len(sent) : processed_chunks[i] = Contribution(sent[i])
    /\ ipc = "returned" <=>
         \A i \in 1..Len(sent) :
           sent[i].reply.raised \/ sent[i].reply.content.type = "str"
    /\ ipc = "returned" =>
         /\ improved.type = "str"
         /\ improved.path =
              join(BlankLine, [i \in 1..Len(sent) |-> Contribution(sent[i]).path])

\* a call that sent a group of several pieces, had one request raise and
\* one answered, and returned
C29_Witness ==
  /\ ipc = "returned"
  /\ \E i \in 1..Len(sent) : Len(sent[i].group) > 1
  /\ \E i \in 1..Len(sent) : sent[i].reply.raised /\ sent[i].chunk_text # <<>>
  /\ \E i \in 1..Len(sent) : ~sent[i].reply.raised

====
